---- MODULE Spec2Model ----
(***************************************************************************)
(* Model of the stackl Ansible inventory plugin                            *)
(* (agent/kubernetes/handlers/ansible_handler.py, the stackl_plugin text): *)
(* check_groups, create_groups, the secret resolvers and                   *)
(* InventoryModule.parse.                                                  *)
(***************************************************************************)
EXTENDS Integers, Sequences, FiniteSets, TLC

\* ------------------------------------------------------------------ bounds
MaxPool == 4
MaxRules == 2
MaxCount == 2
MaxStrLen == 3
MaxRefs == 3
MaxServices == 2
MaxPasses == 2
MaxCheckRules == 2
MaxCheckCount == 1
MaxCheckHosts == 2
MaxEntries == 3
MaxRaceServices == 2

\* Tags a group rule may name, in a fixed order, and infrastructure targets.
TagNames == <<"web", "db">>
TagSet == {TagNames[i] : i \in 1..Len(TagNames)}
Targets == {"t1", "t2"}

\* ------------------------------------------------------------ small helpers
SeqToSet(s) == {s[i] : i \in 1..Len(s)}

Min(a, b) == IF a <= b THEN a ELSE b

\* A tag list of a rule: the tags of a rule, without repetition, in order.
TagSeqs == {s \in UNION {[1..n -> TagSet] : n \in 0..Len(TagNames)} :
              \A i, j \in 1..Len(s) : i # j => s[i] # s[j]}

\* A group rule {"tags": [...], "count": n}, n >= 0.
RulesUpTo(maxCount) == [tags : TagSeqs, count : 0..maxCount]

RuleListsUpTo(maxRules, maxCount) ==
    UNION {[1..n -> RulesUpTo(maxCount)] : n \in 0..maxRules}

\* A pool of n distinct hosts, in order.
Pool(n) == [i \in 1..n |-> i]

\* --------------------------------------------- the groups dict (tag -> list)
\* A dict keeps insertion order: a sequence of [tag, members] with distinct
\* tags; members is the list of {"host": h, "target": t} entries.
HasTag(groups, tag) == \E i \in 1..Len(groups) : groups[i].tag = tag

Members(groups, tag) ==
    IF HasTag(groups, tag)
    THEN groups[CHOOSE i \in 1..Len(groups) : groups[i].tag = tag].members
    ELSE <<>>

GroupTags(groups) == {groups[i].tag : i \in 1..Len(groups)}

\* groups[tag].append(entry) on a defaultdict(list)
GroupsAppend(groups, tag, entry) ==
    IF HasTag(groups, tag)
    THEN [i \in 1..Len(groups) |->
            IF groups[i].tag = tag
            THEN [groups[i] EXCEPT !.members = Append(@, entry)]
            ELSE groups[i]]
    ELSE Append(groups, [tag |-> tag, members |-> <<entry>>])

\* ------------------------------------------------------------- check_groups
\* count_group_dict[tag] += group['count'], for every tag of every rule
RECURSIVE CountGroupDict(_, _)
CountGroupDict(rules, tag) ==
    IF rules = <<>> THEN 0
    ELSE (IF tag \in SeqToSet(rules[1].tags) THEN rules[1].count ELSE 0)
         + CountGroupDict(Tail(rules), tag)

\* the keys of count_group_dict
NamedTags(rules) == UNION {SeqToSet(rules[i].tags) : i \in 1..Len(rules)}

\* check_groups with a fault: the entry count is compared with count alone.
check_groups_count_only(stackl_groups, stackl_inventory_groups, host_list) ==
    \A tag \in NamedTags(stackl_inventory_groups) :
       /\ HasTag(stackl_groups, tag)
       /\ Len(Members(stackl_groups, tag))
            = CountGroupDict(stackl_inventory_groups, tag)

\* count_group_dict with a fault: the count is assigned, not added
RECURSIVE LastCount(_, _)
LastCount(rules, tag) ==
    IF rules = <<>> THEN 0
    ELSE IF tag \in SeqToSet(rules[Len(rules)].tags) THEN rules[Len(rules)].count
    ELSE LastCount(SubSeq(rules, 1, Len(rules) - 1), tag)

\* check_groups with a fault: count_group_dict[tag] = group['count']
check_groups_last_count(stackl_groups, stackl_inventory_groups, host_list) ==
    \A tag \in NamedTags(stackl_inventory_groups) :
       /\ HasTag(stackl_groups, tag)
       /\ Len(Members(stackl_groups, tag))
            = LastCount(stackl_inventory_groups, tag) * Len(host_list)

check_groups(stackl_groups, stackl_inventory_groups, host_list) ==
    LET target_count == Len(host_list)
    IN \A tag \in NamedTags(stackl_inventory_groups) :
          /\ HasTag(stackl_groups, tag)
          /\ Len(Members(stackl_groups, tag))
               = CountGroupDict(stackl_inventory_groups, tag) * target_count

\* ------------------------------------------------------------ create_groups
\* for index in range(count): groups[tag].append({"host": hosts[index], ...});
\* hosts[index] past the end of the list is the IndexError of line 107.
\* TakeHosts with a fault: a pool that runs out ends the loop without an error.
RECURSIVE TakeHostsLenient(_, _, _, _, _, _)
TakeHostsLenient(groups, hosts, tag, target, index, count) ==
    IF index >= count \/ index + 1 > Len(hosts)
    THEN [ok |-> TRUE, groups |-> groups]
    ELSE TakeHostsLenient(GroupsAppend(groups, tag,
                                       [host |-> hosts[index + 1],
                                        target |-> target]),
                          hosts, tag, target, index + 1, count)

RECURSIVE TakeHosts(_, _, _, _, _, _)
TakeHosts(groups, hosts, tag, target, index, count) ==
    IF index >= count THEN [ok |-> TRUE, groups |-> groups]
    ELSE IF index + 1 > Len(hosts) THEN [ok |-> FALSE, groups |-> groups]
    ELSE TakeHosts(GroupsAppend(groups, tag,
                                [host |-> hosts[index + 1], target |-> target]),
                   hosts, tag, target, index + 1, count)

\* for tag in item["tags"]: ...
RECURSIVE ForTags(_, _, _, _, _)
ForTags(groups, hosts, tags, target, count) ==
    IF tags = <<>> THEN [ok |-> TRUE, groups |-> groups]
    ELSE LET r == TakeHosts(groups, hosts, tags[1], target, 0, count)
         IN IF r.ok THEN ForTags(r.groups, hosts, Tail(tags), target, count)
            ELSE r

\* DelHosts with a fault: the slice is deleted once per tag of the rule.
DelHostsPerTag(hosts, item) ==
    SubSeq(hosts, Min(item.count * Len(item.tags), Len(hosts)) + 1, Len(hosts))

\* DelHosts with a fault: the deletion is forgotten.
DelHostsNone(hosts, item) == hosts

\* del hosts[0:item["count"]]  (a slice past the end deletes what there is)
DelHosts(hosts, item) ==
    SubSeq(hosts, Min(item.count, Len(hosts)) + 1, Len(hosts))

\* for item in stackl_inventory_groups: ...; ok = FALSE is the exit(1) taken
\* in the except branch; hosts is the caller's list as the call leaves it.
RECURSIVE ForRules(_, _, _, _)
ForRules(groups, hosts, rules, target) ==
    IF rules = <<>> THEN [ok |-> TRUE, groups |-> groups, hosts |-> hosts]
    ELSE LET r == ForTags(groups, hosts, rules[1].tags, target, rules[1].count)
         IN IF r.ok
            THEN ForRules(r.groups, DelHosts(hosts, rules[1]), Tail(rules), target)
            ELSE [ok |-> FALSE, groups |-> r.groups, hosts |-> hosts]

create_groups(hosts, stackl_inventory_groups, infrastructure_target) ==
    ForRules(<<>>, hosts, stackl_inventory_groups, infrastructure_target)

\* ------------------------------------------------------- dicts (key -> value)
\* A dict as the sequence of its [key, value] items in insertion order.
HasKey(dict, key) == \E i \in 1..Len(dict) : dict[i].key = key

\* dict[key] = value
DictPut(dict, key, value) ==
    IF HasKey(dict, key)
    THEN [i \in 1..Len(dict) |->
            IF dict[i].key = key THEN [key |-> key, value |-> value]
            ELSE dict[i]]
    ELSE Append(dict, [key |-> key, value |-> value])

\* --------------------------------------------------- base64.b64decode, UTF-8
\* Text is a sequence of one-character strings, bytes a sequence of 0..255,
\* a str a sequence of code points.
B64Alphabet ==
    <<"A", "B", "C", "D", "E", "F", "G", "H", "I", "J", "K", "L", "M",
      "N", "O", "P", "Q", "R", "S", "T", "U", "V", "W", "X", "Y", "Z",
      "a", "b", "c", "d", "e", "f", "g", "h", "i", "j", "k", "l", "m",
      "n", "o", "p", "q", "r", "s", "t", "u", "v", "w", "x", "y", "z",
      "0", "1", "2", "3", "4", "5", "6", "7", "8", "9", "+", "/">>

IsB64Char(ch) == \E i \in 1..64 : B64Alphabet[i] = ch

\* table_a2b_base64: the 6-bit value of a character of the alphabet
B64Value(ch) == (CHOOSE i \in 1..64 : B64Alphabet[i] = ch) - 1

\* binascii.a2b_base64 (not strict): characters outside the alphabet are
\* skipped, a pad that completes the quad ends the input, and data that
\* stops inside a quad is an error.
RECURSIVE a2b_base64(_, _, _, _, _)
a2b_base64(data, quad_pos, leftchar, pads, bin) ==
    IF data = <<>> THEN [ok |-> quad_pos = 0, bytes |-> bin]
    ELSE LET ch == data[1]
             rest == Tail(data)
         IN IF ch = "="
            THEN IF quad_pos >= 2 /\ quad_pos + pads + 1 >= 4
                 THEN [ok |-> TRUE, bytes |-> bin]
                 ELSE a2b_base64(rest, quad_pos, leftchar,
                                 IF quad_pos >= 2 THEN pads + 1 ELSE pads, bin)
            ELSE IF ~IsB64Char(ch)
            THEN a2b_base64(rest, quad_pos, leftchar, pads, bin)
            ELSE LET v == B64Value(ch)
                 IN CASE quad_pos = 0 -> a2b_base64(rest, 1, v, 0, bin)
                      [] quad_pos = 1 ->
                           a2b_base64(rest, 2, v % 16, 0,
                                      Append(bin, (leftchar * 4 + (v \div 16)) % 256))
                      [] quad_pos = 2 ->
                           a2b_base64(rest, 3, v % 4, 0,
                                      Append(bin, (leftchar * 16 + (v \div 4)) % 256))
                      [] OTHER ->
                           a2b_base64(rest, 0, 0, 0,
                                      Append(bin, (leftchar * 64 + v) % 256))

b64decode(text) == a2b_base64(text, 0, 0, 0, <<>>)

IsCont(b) == b >= 128 /\ b <= 191

\* bytes.decode("utf-8"), strict: an ill-formed sequence is an error
RECURSIVE utf8_decode(_, _)
utf8_decode(bytes, out) ==
    IF bytes = <<>> THEN [ok |-> TRUE, str |-> out]
    ELSE LET b == bytes[1]
             n == Len(bytes)
         IN IF b < 128 THEN utf8_decode(Tail(bytes), Append(out, b))
            ELSE IF b >= 194 /\ b <= 223
            THEN IF n >= 2 /\ IsCont(bytes[2])
                 THEN utf8_decode(SubSeq(bytes, 3, n),
                                  Append(out, (b - 192) * 64 + (bytes[2] - 128)))
                 ELSE [ok |-> FALSE, str |-> out]
            ELSE IF b >= 224 /\ b <= 239
            THEN IF /\ n >= 3
                    /\ IsCont(bytes[2])
                    /\ IsCont(bytes[3])
                    /\ (b = 224 => bytes[2] >= 160)
                    /\ (b = 237 => bytes[2] <= 159)
                 THEN utf8_decode(SubSeq(bytes, 4, n),
                                  Append(out, (b - 224) * 4096
                                              + (bytes[2] - 128) * 64
                                              + (bytes[3] - 128)))
                 ELSE [ok |-> FALSE, str |-> out]
            ELSE IF b >= 240 /\ b <= 244
            THEN IF /\ n >= 4
                    /\ IsCont(bytes[2])
                    /\ IsCont(bytes[3])
                    /\ IsCont(bytes[4])
                    /\ (b = 240 => bytes[2] >= 144)
                    /\ (b = 244 => bytes[2] <= 143)
                 THEN utf8_decode(SubSeq(bytes, 5, n),
                                  Append(out, (b - 240) * 262144
                                              + (bytes[2] - 128) * 4096
                                              + (bytes[3] - 128) * 64
                                              + (bytes[4] - 128)))
                 ELSE [ok |-> FALSE, str |-> out]
            ELSE [ok |-> FALSE, str |-> out]

\* str.isspace of one code point
IsSpace(cp) ==
    \/ cp \in 9..13
    \/ cp \in 28..32
    \/ cp \in {133, 160, 5760, 8232, 8233, 8239, 8287, 12288}
    \/ cp \in 8192..8202

\* str.rstrip()
RECURSIVE rstrip(_)
rstrip(str) ==
    IF str # <<>> /\ IsSpace(str[Len(str)])
    THEN rstrip(SubSeq(str, 1, Len(str) - 1))
    ELSE str

\* -------------------------------------------------------- get_base64_secrets
\* PadSecret with a fault: one pad character is appended.
PadSecretOnce(secret) == secret \o <<"=">>

\* secret + "==="
PadSecret(secret) == secret \o <<"=", "=", "=">>

\* base64.b64decode(secret + "===").decode("utf-8").rstrip()
DecodeSecret(secret) ==
    LET raw == b64decode(PadSecret(secret))
        txt == IF raw.ok THEN utf8_decode(raw.bytes, <<>>)
               ELSE [ok |-> FALSE, str |-> <<>>]
    IN IF txt.ok THEN [ok |-> TRUE, value |-> rstrip(txt.str)]
       ELSE [ok |-> FALSE, value |-> <<>>]

\* ok = FALSE is the AnsibleParserError("Could not decode secret").
RECURSIVE get_base64_secrets_loop(_, _)
get_base64_secrets_loop(secrets, decoded_secrets) ==
    IF secrets = <<>> THEN [ok |-> TRUE, map |-> decoded_secrets]
    ELSE LET d == DecodeSecret(secrets[1].value)
         IN IF d.ok
            THEN get_base64_secrets_loop(
                     Tail(secrets),
                     DictPut(decoded_secrets, secrets[1].key, d.value))
            ELSE [ok |-> FALSE, map |-> <<>>]

get_base64_secrets(secrets) == get_base64_secrets_loop(secrets, <<>>)

\* --------------------------------------------------------- get_vault_secrets
\* The secret store behind hvac's client.read(path): a path that holds a
\* secret yields its key/value data, any other path yields None.
VaultRead(path) ==
    CASE path = "kv/db" ->
           [found |-> TRUE,
            data |-> <<[key |-> "user", value |-> "admin"],
                       [key |-> "password", value |-> "dbpass"]>>]
      [] path = "kv/app" ->
           [found |-> TRUE,
            data |-> <<[key |-> "password", value |-> "apppass"]>>]
      [] OTHER -> [found |-> FALSE, data |-> <<>>]

\* for key, value in secret_value['data']['data'].items(): secret_dict[key] = value
RECURSIVE DictUpdate(_, _)
DictUpdate(dict, items) ==
    IF items = <<>> THEN dict
    ELSE DictUpdate(DictPut(dict, items[1].key, items[1].value), Tail(items))

\* Subscripting the None of a missing path raises TypeError.
RECURSIVE get_vault_secrets_loop(_, _)
get_vault_secrets_loop(secrets, secret_dict) ==
    IF secrets = <<>> THEN [ok |-> TRUE, map |-> secret_dict]
    ELSE LET secret_value == VaultRead(secrets[1].value)
         IN IF secret_value.found
            THEN get_vault_secrets_loop(
                     Tail(secrets), DictUpdate(secret_dict, secret_value.data))
            ELSE [ok |-> FALSE, map |-> <<>>]

\* token_ok = FALSE: open(token_path) raises.
get_vault_secrets(secrets, token_ok) ==
    IF token_ok THEN get_vault_secrets_loop(secrets, <<>>)
    ELSE [ok |-> FALSE, map |-> <<>>]

\* -------------------------------------------------------- get_conjur_secrets
\* A Conjur reference: whether it holds the "!var" marker, and the path
\* after it.  The server answers 200 with the value, or an error status with
\* an error body.
ConjurGet(path) ==
    CASE path = "app/pw" -> [status |-> 200, text |-> "s3cret"]
      [] path = "app/key" -> [status |-> 200, text |-> "k3y"]
      [] OTHER -> [status |-> 404, text |-> "{\"error\":\"not_found\"}"]

\* secret_path.split("!var")[1] raises IndexError on a reference without the
\* marker; r.text is stored whatever the status of the response.
RECURSIVE get_conjur_secrets_loop(_, _)
get_conjur_secrets_loop(secrets, conjur_secrets) ==
    IF secrets = <<>> THEN [ok |-> TRUE, map |-> conjur_secrets]
    ELSE LET secret_path == secrets[1].value
         IN IF ~secret_path.marker THEN [ok |-> FALSE, map |-> <<>>]
            ELSE get_conjur_secrets_loop(
                     Tail(secrets),
                     DictPut(conjur_secrets, secrets[1].key,
                             ConjurGet(secret_path.path).text))

\* token_ok = FALSE: opening or parsing the token file raises.
get_conjur_secrets(secrets, token_ok) ==
    IF token_ok THEN get_conjur_secrets_loop(secrets, <<>>)
    ELSE [ok |-> FALSE, map |-> <<>>]


\* ------------------------------------------------------------------- state
VARIABLES
    store,          \* stack_instance.groups as the Stackl API holds it
    services,       \* the service definitions of the stack instance
    pc,             \* where the pass of parse() stands
    raised,         \* what left parse(): "none", "AnsibleError", "SystemExit"
    passNo,         \* number of passes of parse() started so far
    svc,            \* position of the pass in the services
    inst,           \* the pass's stack_instance: its groups, each service's hosts
    log,            \* the calls of the pass so far, in order
    validAtFetch,   \* whether the groups read at the start of the pass were
                    \* valid for every grouped service
    storeAtCheck,   \* the store when the current service was checked
    prev,           \* log, validAtFetch, pc of the previous pass, and the
                    \* store as the current pass found it
    callPc,         \* harness of the helper functions
    callArgs,       \* the arguments of the call under study
    callOut,        \* what the call returned
    race            \* two passes of parse() running at once: the store they
                    \* started from and where each of them stands

passVars == <<store, services, pc, raised, passNo, svc, inst, log,
              validAtFetch, storeAtCheck, prev, race>>
callVars == <<callPc, callArgs, callOut>>
vars == <<store, services, pc, raised, passNo, svc, inst, log, validAtFetch,
          storeAtCheck, prev, callPc, callArgs, callOut, race>>

\* no concurrent passes are under study
RaceOff == [start |-> <<>>, procs |-> <<>>]

NoPrev == [log |-> <<>>, validAtFetch |-> FALSE, pc |-> "idle", store |-> <<>>]

\* no pass of parse() is under study
PassOff ==
    /\ store = <<>>
    /\ services = <<>>
    /\ pc = "off"
    /\ raised = "none"
    /\ passNo = 0
    /\ svc = 0
    /\ inst = [groups |-> <<>>, hosts |-> <<>>]
    /\ log = <<>>
    /\ validAtFetch = FALSE
    /\ storeAtCheck = <<>>
    /\ prev = NoPrev
    /\ race = RaceOff

\* no helper call is under study
CallOff ==
    /\ callPc = "off"
    /\ callArgs = <<>>
    /\ callOut = <<>>

\* --------------------------- specification of create_groups / check_groups
NoOut == [ok |-> FALSE, groups |-> <<>>, hosts |-> <<>>, valid |-> FALSE]

PartInit ==
    /\ PassOff
    /\ callPc = "args"
    /\ callArgs \in [hosts : {Pool(n) : n \in 0..MaxPool},
                     rules : RuleListsUpTo(MaxRules, MaxCount),
                     target : Targets]
    /\ callOut = NoOut

CallCreateGroups ==
    /\ callPc = "args"
    /\ LET r == create_groups(callArgs.hosts, callArgs.rules, callArgs.target)
       IN callOut' = [ok |-> r.ok, groups |-> r.groups, hosts |-> r.hosts,
                      valid |-> FALSE]
    /\ callPc' = "created"
    /\ UNCHANGED callArgs
    /\ UNCHANGED passVars

\* the returned assignment is validated against the same rules and the
\* original pool
CallCheckGroups ==
    /\ callPc = "created"
    /\ callOut.ok
    /\ callOut' = [callOut EXCEPT
                     !.valid = check_groups(callOut.groups, callArgs.rules,
                                            callArgs.hosts)]
    /\ callPc' = "checked"
    /\ UNCHANGED callArgs
    /\ UNCHANGED passVars

PartNext == CallCreateGroups \/ CallCheckGroups

SpecPart == PartInit /\ [][PartNext]_vars

\* ------------------------------------------- properties of the partitioning
\* The sum over the rules of count x |tags|.
RECURSIVE Demand(_)
Demand(rules) ==
    IF rules = <<>> THEN 0
    ELSE rules[1].count * Len(rules[1].tags) + Demand(Tail(rules))

\* The sum over the rules of count.
RECURSIVE TotalCount(_)
TotalCount(rules) ==
    IF rules = <<>> THEN 0 ELSE rules[1].count + TotalCount(Tail(rules))

\* The entries a tag is due: for each rule naming it, in order, the count
\* hosts that follow the hosts of the earlier rules in the pool.
RECURSIVE ExpectedMembers(_, _, _, _, _)
ExpectedMembers(pool, rules, target, tag, offset) ==
    IF rules = <<>> THEN <<>>
    ELSE (IF tag \in SeqToSet(rules[1].tags)
          THEN [k \in 1..rules[1].count |->
                  [host |-> pool[offset + k], target |-> target]]
          ELSE <<>>)
         \o ExpectedMembers(pool, Tail(rules), target, tag,
                            offset + rules[1].count)

AllEntries(groups) ==
    UNION {SeqToSet(groups[i].members) : i \in 1..Len(groups)}

AllAssigned(groups) == {e.host : e \in AllEntries(groups)}

\* The hosts rule i handed out: what the first i rules assign beyond what
\* the first i-1 rules assign.
HandedBy(pool, rules, target, i) ==
    LET before == create_groups(pool, SubSeq(rules, 1, i - 1), target).groups
        after == create_groups(pool, SubSeq(rules, 1, i), target).groups
    IN UNION {{Members(after, t)[k].host :
                 k \in (Len(Members(before, t)) + 1)..Len(Members(after, t))} :
              t \in TagSet}

PosIn(pool, h) == CHOOSE k \in 1..Len(pool) : pool[k] = h

EveryCountedRuleHasTag(rules) ==
    \A i \in 1..Len(rules) : rules[i].count > 0 => rules[i].tags # <<>>

\* C1: an assignment that create_groups returned passes check_groups against
\* the same rules and the original pool.
C1_RecomputedAssignmentValidates ==
    callPc = "checked" => callOut.valid

\* C4 as stated: create_groups removes the sum of count x |tags| hosts when
\* the pool holds that many, each tag receiving hosts of its own, and fails
\* when the pool holds fewer.
C4_ConsumesCountTimesTags ==
    callPc = "created" =>
      LET d == Demand(callArgs.rules)
          n == Len(callArgs.hosts)
      IN /\ n >= d => /\ callOut.ok
                      /\ n - Len(callOut.hosts) = d
                      /\ Cardinality(AllAssigned(callOut.groups)) = d
         /\ n < d => ~callOut.ok

\* C4 amended: create_groups removes the sum of the rules' counts from the
\* front of the pool when the pool holds that many hosts, every tag of a rule
\* receiving the same count hosts, the front of the pool left by the earlier
\* rules; it fails when the pool holds fewer hosts than that sum and every
\* rule with a positive count has a tag.
C4_ConsumesSumOfCounts ==
    callPc = "created" =>
      LET s == TotalCount(callArgs.rules)
          n == Len(callArgs.hosts)
      IN /\ n >= s =>
              /\ callOut.ok
              /\ callOut.hosts = SubSeq(callArgs.hosts, s + 1, n)
              /\ \A tag \in TagSet :
                    /\ Members(callOut.groups, tag)
                         = ExpectedMembers(callArgs.hosts, callArgs.rules,
                                           callArgs.target, tag, 0)
                    /\ HasTag(callOut.groups, tag)
                         <=> Members(callOut.groups, tag) # <<>>
         /\ (n < s /\ EveryCountedRuleHasTag(callArgs.rules)) => ~callOut.ok

\* A rule with two tags and a positive count was served from a pool smaller
\* than count x |tags|.
C4_Witness ==
    /\ callPc = "created"
    /\ callOut.ok
    /\ Len(callArgs.hosts) < Demand(callArgs.rules)
    /\ Len(callArgs.hosts) > Len(callOut.hosts)
    /\ \E i \in 1..Len(callArgs.rules) : Len(callArgs.rules[i].tags) = 2

NoHostReusedAcrossRules ==
    \A i, j \in 1..Len(callArgs.rules) :
       i < j => HandedBy(callArgs.hosts, callArgs.rules, callArgs.target, i)
                  \cap HandedBy(callArgs.hosts, callArgs.rules,
                                callArgs.target, j) = {}

EveryEntryCarriesTarget ==
    \A e \in AllEntries(callOut.groups) : e.target = callArgs.target

TagListsFollowPoolOrder ==
    \A i \in 1..Len(callOut.groups) :
       LET m == callOut.groups[i].members
       IN \A a, b \in 1..Len(m) :
             a < b => PosIn(callArgs.hosts, m[a].host)
                        < PosIn(callArgs.hosts, m[b].host)

\* the hosts handed out are a prefix of the pool, and the pool is left
\* without exactly that prefix
HandedOutIsPrefixRemoved ==
    LET k == Cardinality(AllAssigned(callOut.groups))
    IN /\ AllAssigned(callOut.groups) = {callArgs.hosts[p] : p \in 1..k}
       /\ callOut.hosts = SubSeq(callArgs.hosts, k + 1, Len(callArgs.hosts))

\* C5 as stated: rules take from the front of the pool left by the earlier
\* rules; no host serves two rules; the hosts handed out follow pool order
\* with no gaps; every entry carries the target; the pool is left without
\* exactly the prefix handed out.
C5_PrefixNoGaps ==
    (callPc = "created" /\ callOut.ok) =>
      /\ NoHostReusedAcrossRules
      /\ EveryEntryCarriesTarget
      /\ TagListsFollowPoolOrder
      /\ HandedOutIsPrefixRemoved

\* C5 amended: as stated, except that the hosts handed out are gap-free (and
\* the pool is left without exactly these) when every rule with a positive
\* count has a tag; a rule without tags removes its count hosts from the pool
\* and hands them to no group, so that in every case the pool is left without
\* its first min(sum of counts, |pool|) hosts.
C5_PrefixNoGapsForTaggedRules ==
    (callPc = "created" /\ callOut.ok) =>
      /\ NoHostReusedAcrossRules
      /\ EveryEntryCarriesTarget
      /\ TagListsFollowPoolOrder
      /\ callOut.hosts
           = SubSeq(callArgs.hosts,
                    Min(TotalCount(callArgs.rules), Len(callArgs.hosts)) + 1,
                    Len(callArgs.hosts))
      /\ EveryCountedRuleHasTag(callArgs.rules) => HandedOutIsPrefixRemoved

\* pool [h1,h2,h3,h4], rules web:2 then db:1: web = [h1,h2], db = [h3],
\* remaining [h4].
C5_Witness ==
    /\ callPc = "created"
    /\ callOut.ok
    /\ callArgs.hosts = Pool(4)
    /\ callArgs.rules = <<[tags |-> <<"web">>, count |-> 2],
                          [tags |-> <<"db">>, count |-> 1]>>
    /\ callOut.groups
         = <<[tag |-> "web",
              members |-> <<[host |-> 1, target |-> callArgs.target],
                            [host |-> 2, target |-> callArgs.target]>>],
             [tag |-> "db",
              members |-> <<[host |-> 3, target |-> callArgs.target]>>]>>
    /\ callOut.hosts = <<4>>

\* ------------------------------------- specification of the secret resolvers
\* Code points of the strings that are encoded: "a", " ", e-acute, the euro
\* sign (1, 1, 2 and 3 bytes of UTF-8).
Printables == {97, 32, 233, 8364}

Strings == UNION {[1..n -> Printables] : n \in 0..MaxStrLen}

KeyNames == <<"pw", "user", "token", "cert">>

\* "cGFzcw" ("pass"), a lone data character, and a byte that is no UTF-8
B64Good == <<"c", "G", "F", "z", "c", "w">>
B64Truncated == <<"c">>
B64NotUtf8 == <<"w", "w">>

B64Refs == {B64Good, B64Truncated, B64NotUtf8}
VaultRefs == {"kv/db", "kv/app", "kv/gone"}
ConjurRefs == {[marker |-> TRUE, path |-> "app/pw"],
               [marker |-> TRUE, path |-> "app/missing"],
               [marker |-> FALSE, path |-> "app/pw"]}

\* service.secrets holding the references refs under the keys pw, user, ...
SecretsOf(refs) == [i \in 1..Len(refs) |-> [key |-> KeyNames[i], value |-> refs[i]]]

Batches(refs) == {SecretsOf(b) : b \in UNION {[1..n -> refs] : n \in 0..MaxRefs}}

\* str.encode("utf-8")
RECURSIVE utf8_encode(_)
utf8_encode(str) ==
    IF str = <<>> THEN <<>>
    ELSE LET cp == str[1]
         IN (IF cp < 128 THEN <<cp>>
             ELSE IF cp < 2048 THEN <<192 + (cp \div 64), 128 + (cp % 64)>>
             ELSE <<224 + (cp \div 4096), 128 + ((cp \div 64) % 64),
                    128 + (cp % 64)>>)
            \o utf8_encode(Tail(str))

B64Char(v) == B64Alphabet[v + 1]

\* base64.b64encode: three bytes to four characters, the last group padded
RECURSIVE b64encode(_)
b64encode(bytes) ==
    IF bytes = <<>> THEN <<>>
    ELSE IF Len(bytes) = 1
    THEN <<B64Char(bytes[1] \div 4), B64Char((bytes[1] % 4) * 16), "=", "=">>
    ELSE IF Len(bytes) = 2
    THEN <<B64Char(bytes[1] \div 4),
           B64Char((bytes[1] % 4) * 16 + (bytes[2] \div 16)),
           B64Char((bytes[2] % 16) * 4), "=">>
    ELSE <<B64Char(bytes[1] \div 4),
           B64Char((bytes[1] % 4) * 16 + (bytes[2] \div 16)),
           B64Char((bytes[2] % 16) * 4 + (bytes[3] \div 64)),
           B64Char(bytes[3] % 64)>>
         \o b64encode(SubSeq(bytes, 4, Len(bytes)))

RECURSIVE StripPadding(_)
StripPadding(text) ==
    IF text # <<>> /\ text[Len(text)] = "="
    THEN StripPadding(SubSeq(text, 1, Len(text) - 1))
    ELSE text

PaddingOf(str) == Len(b64encode(utf8_encode(str)))
                    - Len(StripPadding(b64encode(utf8_encode(str))))

NoResolve == [ok |-> FALSE, map |-> <<>>]

SecretsInit ==
    /\ PassOff
    /\ callOut = NoResolve
    /\ \/ /\ callPc = "plain"
          /\ callArgs \in [handler : {"base64"}, plain : Strings,
                           secrets : {<<>>}, token_ok : {TRUE}]
       \/ /\ callPc = "args"
          /\ \/ callArgs \in [handler : {"base64"}, plain : {<<>>},
                              secrets : Batches(B64Refs), token_ok : {TRUE}]
             \/ callArgs \in [handler : {"vault"}, plain : {<<>>},
                              secrets : Batches(VaultRefs), token_ok : BOOLEAN]
             \/ callArgs \in [handler : {"conjur"}, plain : {<<>>},
                              secrets : Batches(ConjurRefs), token_ok : BOOLEAN]

\* the string is encoded to base64 and its padding stripped
EncodeSecret ==
    /\ callPc = "plain"
    /\ callArgs' = [callArgs EXCEPT
                      !.secrets = <<[key |-> "pw",
                                     value |-> StripPadding(
                                         b64encode(utf8_encode(callArgs.plain)))]>>]
    /\ callPc' = "encoded"
    /\ UNCHANGED callOut
    /\ UNCHANGED passVars

ResolveBase64 ==
    /\ callPc \in {"args", "encoded"}
    /\ callArgs.handler = "base64"
    /\ callOut' = get_base64_secrets(callArgs.secrets)
    /\ callPc' = IF callPc = "encoded" THEN "decoded" ELSE "resolved"
    /\ UNCHANGED callArgs
    /\ UNCHANGED passVars

ResolveVault ==
    /\ callPc = "args"
    /\ callArgs.handler = "vault"
    /\ callOut' = get_vault_secrets(callArgs.secrets, callArgs.token_ok)
    /\ callPc' = "resolved"
    /\ UNCHANGED callArgs
    /\ UNCHANGED passVars

ResolveConjur ==
    /\ callPc = "args"
    /\ callArgs.handler = "conjur"
    /\ callOut' = get_conjur_secrets(callArgs.secrets, callArgs.token_ok)
    /\ callPc' = "resolved"
    /\ UNCHANGED callArgs
    /\ UNCHANGED passVars

SecretsNext == EncodeSecret \/ ResolveBase64 \/ ResolveVault \/ ResolveConjur

SpecSecrets == SecretsInit /\ [][SecretsNext]_vars

\* A reference the backend cannot read or decode.
Unreadable(handler, ref) ==
    CASE handler = "base64" -> ref \in {B64Truncated, B64NotUtf8}
      [] handler = "vault" -> ~VaultRead(ref).found
      [] OTHER -> ~ref.marker \/ ConjurGet(ref.path).status # 200

\* C9: a resolver call over a batch with an unreadable or undecodable
\* reference fails and returns no map; no map holds an error response as a
\* secret value.
C9_ResolutionAllOrNothing ==
    callPc = "resolved" =>
      /\ (\E i \in 1..Len(callArgs.secrets) :
             Unreadable(callArgs.handler, callArgs.secrets[i].value))
           => (~callOut.ok /\ callOut.map = <<>>)
      /\ callArgs.handler = "conjur" =>
           \A i \in 1..Len(callOut.map) :
              callOut.map[i].value # ConjurGet("app/missing").text

\* C10 as stated: a printable string encoded to base64, its padding stripped,
\* resolves to exactly itself.
C10_RoundTripExact ==
    callPc = "decoded" =>
      /\ callOut.ok
      /\ callOut.map = <<[key |-> "pw", value |-> callArgs.plain]>>

\* C10 amended: the string resolves to itself without its trailing
\* whitespace, hence to exactly itself when it does not end in whitespace;
\* whatever padding its encoding had.
C10_RoundTripUpToTrailingWhitespace ==
    callPc = "decoded" =>
      /\ callOut.ok
      /\ callOut.map = <<[key |-> "pw", value |-> rstrip(callArgs.plain)]>>
      /\ (callArgs.plain = <<>> \/ ~IsSpace(callArgs.plain[Len(callArgs.plain)]))
           => callOut.map[1].value = callArgs.plain

\* A string with a two-byte character whose encoding lost two pad characters
\* came back whole.
C10_Witness ==
    /\ callPc = "decoded"
    /\ PaddingOf(callArgs.plain) = 2
    /\ 233 \in SeqToSet(callArgs.plain)
    /\ Len(callArgs.plain) >= 2
    /\ callOut.ok
    /\ callOut.map[1].value = callArgs.plain

\* ------------------------------------------------ the stack instance of a pass
ServiceNames == <<"svc1", "svc2", "svc3", "svc4">>

\* service + "_" + str(index), for the one definition (index 0) of a service
SyntheticHost(service) ==
    CASE service = "svc1" -> "svc1_0"
      [] service = "svc2" -> "svc2_0"
      [] service = "svc3" -> "svc3_0"
      [] OTHER -> "svc4_0"

GoodSecrets == <<[key |-> "pw", value |-> B64Good]>>
BadSecrets == <<[key |-> "pw", value |-> B64Truncated]>>

Rule(tags, count) == [tags |-> tags, count |-> count]

\* A service definition: grouped says whether its provisioning parameters
\* hold stackl_inventory_groups (rules); has_secrets whether it has secrets.
Grouped(hosts, rules, has_secrets, secrets) ==
    [grouped |-> TRUE, hosts |-> hosts, rules |-> rules,
     has_secrets |-> has_secrets, secrets |-> secrets]

Plain(hosts, has_secrets, secrets) ==
    [grouped |-> FALSE, hosts |-> hosts, rules |-> <<>>,
     has_secrets |-> has_secrets, secrets |-> secrets]

\* The service definitions an instance is made of.
ServiceShapes ==
    {Grouped(<<"h1">>, <<Rule(<<"web">>, 1)>>, FALSE, <<>>),
     Grouped(<<"h1", "h2">>, <<Rule(<<"web">>, 1)>>, TRUE, GoodSecrets),
     Grouped(<<"h1">>, <<Rule(<<"web">>, 2)>>, FALSE, <<>>),
     Grouped(<<"h1">>, <<Rule(<<"db">>, 1)>>, TRUE, GoodSecrets),
     Grouped(<<"h1", "h2">>, <<Rule(<<"web", "db">>, 1)>>, FALSE, <<>>),
     Grouped(<<"h1">>, <<Rule(<<"web">>, 1)>>, TRUE, BadSecrets),
     Grouped(<<"h1", "h2">>, <<Rule(<<"web">>, 0)>>, FALSE, <<>>),
     Grouped(<<"h1", "h2">>, <<Rule(<<"web">>, 1), Rule(<<"db">>, 1)>>,
             FALSE, <<>>),
     Plain(<<>>, FALSE, <<>>),
     Plain(<<"h1", "h2">>, TRUE, GoodSecrets),
     Plain(<<"h1">>, TRUE, BadSecrets)}

Entry(h) == [host |-> h, target |-> "t1"]

\* The group assignments the store may hold before the first pass.
StoreInits ==
    {<<>>,
     <<[tag |-> "web", members |-> <<Entry("h1")>>]>>,
     <<[tag |-> "web", members |-> <<Entry("h1"), Entry("h2")>>],
       [tag |-> "db", members |-> <<Entry("h1"), Entry("h2")>>]>>,
     <<[tag |-> "web", members |-> <<>>],
       [tag |-> "db", members |-> <<Entry("h1")>>]>>}

\* service_definition.provisioning_parameters.items()
Params(sd) ==
    (IF sd.grouped
     THEN <<[key |-> "stackl_inventory_groups", value |-> sd.rules]>>
     ELSE <<>>)
    \o <<[key |-> "ansible_user", value |-> "stackl"]>>

\* ------------------------------------------------------ the calls of a pass
GetEv == [op |-> "get_stack_instance", svc |-> 0]
CheckEv(k, valid) == [op |-> "check_groups", svc |-> k, valid |-> valid]
CreateEv(k, ok) == [op |-> "create_groups", svc |-> k, ok |-> ok]
\* PutEv with a fault: the update is built without disable_invocation.
PutEvInvoking(k, groups) ==
    [op |-> "put_stack_instance", svc |-> k, stackl_groups |-> groups,
     disable_invocation |-> FALSE]

PutEv(k, groups) ==
    [op |-> "put_stack_instance", svc |-> k, stackl_groups |-> groups,
     disable_invocation |-> TRUE]
SecretsEv(k) == [op |-> "get_secrets", svc |-> k]
AddGroup(k, group) == [op |-> "add_group", svc |-> k, group |-> group]
AddHost(k, host, group) ==
    [op |-> "add_host", svc |-> k, host |-> host, group |-> group]
SetVariable(k, group, key, value) ==
    [op |-> "set_variable", svc |-> k, group |-> group, key |-> key,
     value |-> value]

\* for key, value in items: self.inventory.set_variable(group, key, value)
SetVariables(k, group, items) ==
    [i \in 1..Len(items) |-> SetVariable(k, group, items[i].key, items[i].value)]

\* the secret handler of the plugin configuration: base64, its default
ResolveSecrets(sd) == get_base64_secrets(sd.secrets)

\* for group in value: add_host, the parameters, then the secrets, which are
\* resolved anew for every member; ok = FALSE is the resolver's exception
RECURSIVE PublishMembers(_, _, _, _, _)
PublishMembers(k, item, members, sd, calls) ==
    IF members = <<>> THEN [ok |-> TRUE, calls |-> calls]
    ELSE LET c1 == calls \o <<AddHost(k, members[1].host, item)>>
                         \o SetVariables(k, item, Params(sd))
         IN IF ~sd.has_secrets
            THEN PublishMembers(k, item, Tail(members), sd, c1)
            ELSE LET r == ResolveSecrets(sd)
                 IN IF r.ok
                    THEN PublishMembers(k, item, Tail(members), sd,
                                        c1 \o <<SecretsEv(k)>>
                                           \o SetVariables(k, item, r.map))
                    ELSE [ok |-> FALSE, calls |-> c1 \o <<SecretsEv(k)>>]

\* for item, value in stack_instance.groups.items(): add_group, the members
RECURSIVE PublishGroups(_, _, _, _)
PublishGroups(k, groups, sd, calls) ==
    IF groups = <<>> THEN [ok |-> TRUE, calls |-> calls]
    ELSE LET r == PublishMembers(k, groups[1].tag, groups[1].members, sd,
                                 calls \o <<AddGroup(k, groups[1].tag)>>)
         IN IF r.ok THEN PublishGroups(k, Tail(groups), sd, r.calls)
            ELSE r

\* PublishService with a fault: a service without hosts gets no host at all.
PublishServiceNoSynthetic(k, service, sd) ==
    LET hosts == [i \in 1..Len(sd.hosts) |-> AddHost(k, sd.hosts[i], service)]
        c1 == <<AddGroup(k, service)>> \o hosts
                \o <<SetVariable(k, service, "infrastructure_target", "t1")>>
                \o SetVariables(k, service, Params(sd))
    IN IF ~sd.has_secrets THEN [ok |-> TRUE, calls |-> c1]
       ELSE LET r == ResolveSecrets(sd)
            IN IF r.ok
               THEN [ok |-> TRUE,
                     calls |-> c1 \o <<SecretsEv(k)>>
                                  \o SetVariables(k, service, r.map)]
               ELSE [ok |-> FALSE, calls |-> c1 \o <<SecretsEv(k)>>]

\* the else branch of parse(): one group named after the service
PublishService(k, service, sd) ==
    LET hosts == IF sd.hosts # <<>>
                 THEN [i \in 1..Len(sd.hosts) |-> AddHost(k, sd.hosts[i], service)]
                 ELSE <<AddHost(k, SyntheticHost(service), service)>>
        c1 == <<AddGroup(k, service)>> \o hosts
                \o <<SetVariable(k, service, "infrastructure_target", "t1")>>
                \o SetVariables(k, service, Params(sd))
    IN IF ~sd.has_secrets THEN [ok |-> TRUE, calls |-> c1]
       ELSE LET r == ResolveSecrets(sd)
            IN IF r.ok
               THEN [ok |-> TRUE,
                     calls |-> c1 \o <<SecretsEv(k)>>
                                  \o SetVariables(k, service, r.map)]
               ELSE [ok |-> FALSE, calls |-> c1 \o <<SecretsEv(k)>>]

\* what the InventoryBuilder received
IsInventoryCall(e) == e.op \in {"add_group", "add_host", "set_variable"}
Inventory(l) == SelectSeq(l, IsInventoryCall)

IsPut(e) == e.op = "put_stack_instance"
Puts(l) == SelectSeq(l, IsPut)

IsCreate(e) == e.op = "create_groups"
Creates(l) == SelectSeq(l, IsCreate)

\* isValid of the specification: every tag the rules name is in the
\* assignment with count x n entries.
IsValidAssignment(groups, rules, n) ==
    \A tag \in NamedTags(rules) :
       \E i \in 1..Len(groups) :
          /\ groups[i].tag = tag
          /\ Len(groups[i].members) = CountGroupDict(rules, tag) * n

AllValid(groups) ==
    \A k \in 1..Len(services) :
       services[k].grouped =>
         IsValidAssignment(groups, services[k].rules, Len(services[k].hosts))

\* ----------------------------------------- InventoryModule.parse, step by step
Init ==
    /\ CallOff
    /\ store \in StoreInits
    /\ services \in UNION {[1..n -> ServiceShapes] : n \in 1..MaxServices}
    /\ pc = "idle"
    /\ raised = "none"
    /\ passNo = 0
    /\ svc = 0
    /\ inst = [groups |-> <<>>, hosts |-> <<>>]
    /\ log = <<>>
    /\ validAtFetch = FALSE
    /\ storeAtCheck = <<>>
    /\ prev = NoPrev
    /\ race = RaceOff

StartPass ==
    /\ pc \in {"idle", "done", "failed"}
    /\ passNo < MaxPasses
    /\ passNo' = passNo + 1
    /\ prev' = [log |-> log, validAtFetch |-> validAtFetch, pc |-> pc,
                store |-> store]
    /\ log' = <<GetEv>>
    /\ storeAtCheck' = <<>>
    /\ UNCHANGED <<store, services, callVars, race>>

\* api_instance.get_stack_instance(stack_instance_name) returns the instance
GetStackInstance ==
    /\ StartPass
    /\ inst' = [groups |-> store,
                hosts |-> [k \in 1..Len(services) |-> services[k].hosts]]
    /\ validAtFetch' = AllValid(store)
    /\ svc' = 1
    /\ pc' = "service"
    /\ raised' = "none"

\* verify_stackl_client or get_stack_instance raises: AnsibleError
GetStackInstanceFails ==
    /\ StartPass
    /\ inst' = [groups |-> <<>>, hosts |-> <<>>]
    /\ validAtFetch' = FALSE
    /\ svc' = 0
    /\ pc' = "failed"
    /\ raised' = "AnsibleError"

\* CheckGroups with a fault: an invalid assignment is published as it is.
CheckGroupsSkipsRecompute ==
    /\ pc = "service"
    /\ svc <= Len(services)
    /\ services[svc].grouped
    /\ log' = Append(log, CheckEv(svc, check_groups(inst.groups,
                                                    services[svc].rules,
                                                    inst.hosts[svc])))
    /\ pc' = "publish"
    /\ storeAtCheck' = store
    /\ UNCHANGED <<store, services, raised, passNo, svc, inst, validAtFetch,
                   prev, callVars, race>>

\* if not check_groups(stack_instance.groups, rules, service_definition.hosts)
CheckGroups ==
    /\ pc = "service"
    /\ svc <= Len(services)
    /\ services[svc].grouped
    /\ LET valid == check_groups(inst.groups, services[svc].rules, inst.hosts[svc])
       IN /\ log' = Append(log, CheckEv(svc, valid))
          /\ pc' = IF valid THEN "publish" ELSE "create"
    /\ storeAtCheck' = store
    /\ UNCHANGED <<store, services, raised, passNo, svc, inst, validAtFetch,
                   prev, callVars, race>>

\* The new groups merged into the old ones: a tag keeps its old entries.
MergeGroups(old, new) ==
    [i \in 1..Len(old) |->
       [old[i] EXCEPT !.members = @ \o Members(new, old[i].tag)]]
    \o SelectSeq(new, LAMBDA g : ~HasTag(old, g.tag))

\* CreateGroups with a fault: the result is merged into the assignment.
CreateGroupsMerging ==
    /\ pc = "create"
    /\ LET r == create_groups(inst.hosts[svc], services[svc].rules, "t1")
       IN /\ log' = Append(log, CreateEv(svc, r.ok))
          /\ IF r.ok
             THEN /\ inst' = [groups |-> MergeGroups(inst.groups, r.groups),
                              hosts |-> [inst.hosts EXCEPT ![svc] = r.hosts]]
                  /\ pc' = "put"
                  /\ raised' = raised
             ELSE /\ inst' = inst
                  /\ pc' = "failed"
                  /\ raised' = "SystemExit"
    /\ UNCHANGED <<store, services, passNo, svc, validAtFetch, storeAtCheck,
                   prev, callVars, race>>

\* stack_instance.groups = create_groups(hosts, rules, infrastructure_target);
\* its exit(1) raises SystemExit, which "except Exception" does not catch
CreateGroups ==
    /\ pc = "create"
    /\ LET r == create_groups(inst.hosts[svc], services[svc].rules, "t1")
       IN /\ log' = Append(log, CreateEv(svc, r.ok))
          /\ IF r.ok
             THEN /\ inst' = [groups |-> r.groups,
                              hosts |-> [inst.hosts EXCEPT ![svc] = r.hosts]]
                  /\ pc' = "put"
                  /\ raised' = raised
             ELSE /\ inst' = inst
                  /\ pc' = "failed"
                  /\ raised' = "SystemExit"
    /\ UNCHANGED <<store, services, passNo, svc, validAtFetch, storeAtCheck,
                   prev, callVars, race>>

\* api_instance.put_stack_instance(StackInstanceUpdate(params={"stackl_groups":
\* stack_instance.groups}, disable_invocation=True)): the store takes the groups
PutStackInstance ==
    /\ pc = "put"
    /\ store' = inst.groups
    /\ log' = Append(log, PutEv(svc, inst.groups))
    /\ pc' = "publish"
    /\ UNCHANGED <<services, raised, passNo, svc, inst, validAtFetch,
                   storeAtCheck, prev, callVars, race>>

\* put_stack_instance raises: AnsibleError, the store unchanged
PutStackInstanceFails ==
    /\ pc = "put"
    /\ log' = Append(log, PutEv(svc, inst.groups))
    /\ pc' = "failed"
    /\ raised' = "AnsibleError"
    /\ UNCHANGED <<store, services, passNo, svc, inst, validAtFetch,
                   storeAtCheck, prev, callVars, race>>

\* the publication of every group of stack_instance.groups for the service
PublishGrouped ==
    /\ pc = "publish"
    /\ LET r == PublishGroups(svc, inst.groups, services[svc], <<>>)
       IN /\ log' = log \o r.calls
          /\ IF r.ok
             THEN /\ svc' = svc + 1
                  /\ pc' = "service"
                  /\ raised' = raised
             ELSE /\ svc' = svc
                  /\ pc' = "failed"
                  /\ raised' = "AnsibleError"
    /\ UNCHANGED <<store, services, passNo, inst, validAtFetch, storeAtCheck,
                   prev, callVars, race>>

\* a service without stackl_inventory_groups
PublishPlain ==
    /\ pc = "service"
    /\ svc <= Len(services)
    /\ ~services[svc].grouped
    /\ LET r == PublishService(svc, ServiceNames[svc], services[svc])
       IN /\ log' = log \o r.calls
          /\ IF r.ok
             THEN /\ svc' = svc + 1
                  /\ pc' = "service"
                  /\ raised' = raised
             ELSE /\ svc' = svc
                  /\ pc' = "failed"
                  /\ raised' = "AnsibleError"
    /\ UNCHANGED <<store, services, passNo, inst, validAtFetch, storeAtCheck,
                   prev, callVars, race>>

\* the loop over the services is over: parse() returns
Return ==
    /\ pc = "service"
    /\ svc > Len(services)
    /\ pc' = "done"
    /\ UNCHANGED <<store, services, raised, passNo, svc, inst, log,
                   validAtFetch, storeAtCheck, prev, callVars, race>>

Next ==
    \/ GetStackInstance
    \/ GetStackInstanceFails
    \/ CheckGroups
    \/ CreateGroups
    \/ PutStackInstance
    \/ PutStackInstanceFails
    \/ PublishGrouped
    \/ PublishPlain
    \/ Return

Spec == Init /\ [][Next]_vars

\* ------------------------------------------------------ properties of a pass
\* The pool runs out before some rule's demand is met.
Insufficient(hosts, rules) ==
    \E i \in 1..Len(rules) :
       /\ rules[i].tags # <<>>
       /\ rules[i].count
            > Len(hosts) - Min(TotalCount(SubSeq(rules, 1, i - 1)), Len(hosts))

Fetched == pc \in {"service", "create", "put", "publish", "done"}
                \/ (pc = "failed" /\ svc >= 1)

\* C2: once a pass has recomputed, persisted and returned, the persisted
\* assignment is valid for every grouped service and no later pass over the
\* unchanged instance calls put_stack_instance.
C2_OnlyFirstPassWrites ==
    /\ (pc = "done" /\ Puts(log) # <<>>) => AllValid(store)
    /\ (prev.pc = "done" /\ Puts(prev.log) # <<>>) => Puts(log) = <<>>

\* C3: a pass that read an assignment valid for every grouped service calls
\* neither create_groups nor put_stack_instance and leaves the assignment as
\* it was; the pass after it finds the assignment valid again, writes nothing
\* and hands the InventoryBuilder the same calls.
C3_ValidPassIsIdempotent ==
    /\ (Fetched /\ validAtFetch) =>
         /\ Creates(log) = <<>>
         /\ Puts(log) = <<>>
         /\ inst.groups = prev.store
         /\ store = prev.store
    /\ (Fetched /\ prev.validAtFetch) =>
         /\ validAtFetch
         /\ Puts(log) = <<>>
         /\ pc \in {"done", "failed"} => Inventory(log) = Inventory(prev.log)

\* The second of two passes over a valid assignment of a grouped service with
\* a tagged rule has returned, having published.
C3_Witness ==
    /\ passNo = 2
    /\ prev.validAtFetch
    /\ prev.pc = "done"
    /\ pc = "done"
    /\ \E k \in 1..Len(services) :
          services[k].grouped /\ TotalCount(services[k].rules) > 0
    /\ \E i \in 1..Len(log) : log[i].op = "add_host"
    /\ Inventory(log) = Inventory(prev.log)

\* C6: create_groups fails exactly when the pool runs out before a rule's
\* demand is met; the pass then ends with no put_stack_instance for that
\* service, the pass's assignment and the store's as they were when the
\* service was checked.
C6_FailedPartitionWritesNothing ==
    /\ (pc \in {"put", "publish"}
        /\ \E i \in 1..Len(log) : log[i] = CreateEv(svc, TRUE))
         => ~Insufficient(services[svc].hosts, services[svc].rules)
    /\ raised = "SystemExit" =>
         /\ Insufficient(services[svc].hosts, services[svc].rules)
         /\ log[Len(log)] = CreateEv(svc, FALSE)
         /\ \A i \in 1..Len(log) : IsPut(log[i]) => log[i].svc # svc
         /\ store = storeAtCheck
         /\ inst.groups = (IF Puts(log) = <<>> THEN prev.store
                           ELSE Puts(log)[Len(Puts(log))].stackl_groups)

\* The second service's partition failed (one host, count 2) after the first
\* service's assignment was written.
C6_Witness ==
    /\ raised = "SystemExit"
    /\ svc = 2
    /\ services[svc].hosts = <<"h1">>
    /\ services[svc].rules = <<Rule(<<"web">>, 2)>>
    /\ Puts(log) # <<>>
    /\ store # <<>>

\* C7: whatever fails in a pass leaves parse() as AnsibleError.
C7_EveryFailureIsWrapped ==
    pc = "failed" => raised = "AnsibleError"

\* C8: when a pass fails, the InventoryBuilder has received nothing from it.
C8_NothingPublishedOnFailure ==
    pc = "failed" => Inventory(log) = <<>>

\* ------------------------------------------ specification of check_groups
\* An assignment: each tag absent, or present with 0..MaxEntries entries.
RECURSIVE AssignmentsOver(_)
AssignmentsOver(tags) ==
    IF tags = <<>> THEN {<<>>}
    ELSE LET rest == AssignmentsOver(Tail(tags))
         IN rest \cup
            {<<[tag |-> tags[1],
                members |-> [i \in 1..m |-> [host |-> i, target |-> "t1"]]]>>
               \o r : m \in 0..MaxEntries, r \in rest}

CheckInit ==
    /\ PassOff
    /\ callPc = "args"
    /\ callArgs \in [groups : AssignmentsOver(TagNames),
                     rules : RuleListsUpTo(MaxCheckRules, MaxCheckCount),
                     hosts : {Pool(n) : n \in 0..MaxCheckHosts}]
    /\ callOut = [valid |-> FALSE]

CallCheckGroupsOnly ==
    /\ callPc = "args"
    /\ callOut' = [valid |-> check_groups(callArgs.groups, callArgs.rules,
                                          callArgs.hosts)]
    /\ callPc' = "checked"
    /\ UNCHANGED callArgs
    /\ UNCHANGED passVars

CheckNext == CallCheckGroupsOnly

SpecCheck == CheckInit /\ [][CheckNext]_vars

\* The rules that name a tag.
RulesNaming(rules, tag) ==
    {i \in 1..Len(rules) : tag \in SeqToSet(rules[i].tags)}

RECURSIVE SumOfCounts(_, _)
SumOfCounts(rules, is) ==
    IF is = {} THEN 0
    ELSE LET i == CHOOSE j \in is : TRUE
         IN rules[i].count + SumOfCounts(rules, is \ {i})

EntriesOf(groups, tag) ==
    {i \in 1..Len(groups) : groups[i].tag = tag}

\* C11 as stated: check_groups is true exactly when every tag of every rule
\* is in the assignment with that rule's count x the number of hosts entries.
C11_ValidIffPerRuleCount ==
    callPc = "checked" =>
      (callOut.valid <=>
         \A i \in 1..Len(callArgs.rules) :
            \A tag \in SeqToSet(callArgs.rules[i].tags) :
               \E g \in EntriesOf(callArgs.groups, tag) :
                  Len(callArgs.groups[g].members)
                    = callArgs.rules[i].count * Len(callArgs.hosts))

\* C11 amended: check_groups is true exactly when every tag named by a rule
\* is in the assignment with (the sum of the counts of the rules naming it) x
\* the number of hosts entries; tags that no rule names play no part.
C11_ValidIffSummedCount ==
    callPc = "checked" =>
      (callOut.valid <=>
         \A tag \in TagSet :
            RulesNaming(callArgs.rules, tag) # {} =>
              \E g \in EntriesOf(callArgs.groups, tag) :
                 Len(callArgs.groups[g].members)
                   = SumOfCounts(callArgs.rules,
                                 RulesNaming(callArgs.rules, tag))
                     * Len(callArgs.hosts))

\* A tag named by two rules of count 1 holds 2 x 1 entries and is valid,
\* beside a tag no rule names.
C11_Witness ==
    /\ callPc = "checked"
    /\ callOut.valid
    /\ callArgs.rules = <<[tags |-> <<"web">>, count |-> 1],
                          [tags |-> <<"web">>, count |-> 1]>>
    /\ Len(callArgs.hosts) = 1
    /\ Len(Members(callArgs.groups, "web")) = 2
    /\ HasTag(callArgs.groups, "db")

\* The calls of the pass made for service k, in order.
CallsFor(k) == {i \in 1..Len(log) : log[i].svc = k}

IsCheck(e) == e.op = "check_groups"

C13_WritesAreWholeAndSuppressed ==
    /\ \A i \in 1..Len(log) :
          IsPut(log[i]) =>
            /\ log[i].disable_invocation
            /\ i > 1
            /\ log[i - 1] = CreateEv(log[i].svc, TRUE)
            /\ log[i].stackl_groups
                 = create_groups(services[log[i].svc].hosts,
                                 services[log[i].svc].rules, "t1").groups
            /\ \A j \in 1..Len(log) :
                  (IsPut(log[j]) /\ log[j].svc = log[i].svc) => j = i
    /\ \A i \in 1..Len(log) :
          (log[i].op = "create_groups" /\ log[i].ok) =>
             IF i = Len(log) THEN pc = "put"
             ELSE IsPut(log[i + 1]) /\ log[i + 1].svc = log[i].svc

\* Two services were recomputed in one pass and each was written once.
C13_Witness ==
    /\ pc = "done"
    /\ Len(Puts(log)) = 2
    /\ Len(Creates(log)) = 2
    /\ Puts(log)[1].stackl_groups # Puts(log)[2].stackl_groups

\* ------------------------------------------------------------- publication
InLog(e) == \E i \in 1..Len(log) : log[i] = e

\* The service before svc is grouped and its publication has just returned:
\* inst.groups is the assignment it published.
JustPublishedGrouped ==
    /\ pc = "service"
    /\ svc > 1
    /\ services[svc - 1].grouped

\* C14: once a grouped service is published, every tag of the assignment,
\* one with no member included, has its group emitted, each member host added
\* to it, and every provisioning parameter and every resolved secret of the
\* service set as a variable of that group.
C14_EveryGroupFullyPublished ==
    JustPublishedGrouped =>
      LET k == svc - 1
          sd == services[k]
      IN \A g \in 1..Len(inst.groups) :
            LET tag == inst.groups[g].tag
                members == inst.groups[g].members
            IN /\ InLog(AddGroup(k, tag))
               /\ \A m \in 1..Len(members) :
                     InLog(AddHost(k, members[m].host, tag))
               /\ \A p \in 1..Len(Params(sd)) :
                     InLog(SetVariable(k, tag, Params(sd)[p].key,
                                       Params(sd)[p].value))
               /\ sd.has_secrets =>
                    \A p \in 1..Len(ResolveSecrets(sd).map) :
                       InLog(SetVariable(k, tag, ResolveSecrets(sd).map[p].key,
                                         ResolveSecrets(sd).map[p].value))

IsAddGroup(e) == e.op = "add_group"
IsAddHost(e) == e.op = "add_host"

\* the next service of the pass has no stackl_inventory_groups
AtPlainService ==
    /\ pc = "service"
    /\ svc <= Len(services)
    /\ ~services[svc].grouped

\* C15: processing a service without stackl_inventory_groups makes no
\* check_groups, create_groups or put_stack_instance call, leaves the store,
\* the pass's group assignment and the host lists as they were, and emits one
\* group, named after the service, holding the declared hosts in order or,
\* when there are none, the one host <service>_<index>.
C15_PlainServiceOnlyPublishes ==
    [][AtPlainService =>
         LET new == SubSeq(log', Len(log) + 1, Len(log'))
             name == ServiceNames[svc]
             hosts == services[svc].hosts
         IN /\ store' = store
            /\ inst' = inst
            /\ \A i \in 1..Len(new) :
                  /\ new[i].svc = svc
                  /\ new[i].op \in {"add_group", "add_host", "set_variable",
                                    "get_secrets"}
                  /\ IsInventoryCall(new[i]) => new[i].group = name
            /\ new # <<>>
            /\ new[1] = AddGroup(svc, name)
            /\ SelectSeq(new, IsAddGroup) = <<AddGroup(svc, name)>>
            /\ SelectSeq(new, IsAddHost)
                 = IF hosts # <<>>
                   THEN [i \in 1..Len(hosts) |-> AddHost(svc, hosts[i], name)]
                   ELSE <<AddHost(svc, SyntheticHost(name), name)>>]_vars

\* A pass published a service without hosts under its synthetic host and a
\* service with two declared hosts, and wrote nothing.
C15_Witness ==
    /\ pc = "done"
    /\ Len(services) = 2
    /\ ~services[1].grouped /\ services[1].hosts = <<>>
    /\ ~services[2].grouped /\ Len(services[2].hosts) = 2
    /\ InLog(AddHost(1, "svc1_0", "svc1"))
    /\ InLog(AddHost(2, "h2", "svc2"))
    /\ Puts(log) = <<>>

\* ------------------------------------------------------------ recomputation
\* create_groups has returned for service svc, and the write, if already
\* made, succeeded.
Recomputed ==
    \/ pc = "put"
    \/ pc = "publish" /\ IsPut(log[Len(log)])

\* C16: after the assignment of a service is recomputed, every tag its rules
\* name holds exactly the entries the partition of the service's hosts gives
\* it (none when it gives none), whatever the tag held before, and the
\* assignment then written to the store is this one.
C16_RecomputationReplaces ==
    Recomputed =>
      /\ \A tag \in NamedTags(services[svc].rules) :
            Members(inst.groups, tag)
              = ExpectedMembers(services[svc].hosts, services[svc].rules,
                                "t1", tag, 0)
      /\ pc = "publish" =>
           /\ store = inst.groups
           /\ log[Len(log)] = PutEv(svc, inst.groups)

\* A tag that held two entries was recomputed to one and written.
C16_Witness ==
    /\ pc = "publish"
    /\ IsPut(log[Len(log)])
    /\ passNo = 1
    /\ \E tag \in NamedTags(services[svc].rules) :
          /\ Len(Members(prev.store, tag)) = 2
          /\ Len(Members(store, tag)) = 1

\* C17: the publication of a grouped service makes no inventory call twice,
\* so one add_group per group, one add_host per host and group, one
\* set_variable per group and key, and resolves the secrets at most once.
C17_OneCallPerGroupHostVariable ==
    JustPublishedGrouped =>
      LET k == svc - 1
          mine == CallsFor(k)
      IN /\ \A i, j \in mine :
               (IsInventoryCall(log[i]) /\ IsInventoryCall(log[j])
                  /\ log[i].op = log[j].op /\ log[i].group = log[j].group
                  /\ (log[i].op = "add_host" => log[i].host = log[j].host)
                  /\ (log[i].op = "set_variable" => log[i].key = log[j].key))
               => i = j
         /\ Cardinality({i \in mine : log[i] = SecretsEv(k)}) <= 1

\* ---------------------------------------------------- two grouped services
\* Two grouped services whose rules name different tags, each tag with a
\* positive count.
TwoServicesDisjointTags ==
    /\ Len(services) = 2
    /\ services[1].grouped /\ services[2].grouped
    /\ NamedTags(services[1].rules) \cap NamedTags(services[2].rules) = {}
    /\ \A k \in 1..2 : \A tag \in NamedTags(services[k].rules) :
          CountGroupDict(services[k].rules, tag) > 0

\* C18: with two grouped services on different tags, once the second service
\* is processed the assignment still holds the groups published for the
\* first, and after the pass the store holds the groups of both.
C18_OtherServicesGroupsKept ==
    TwoServicesDisjointTags =>
      /\ (svc = 3 /\ pc \in {"service", "done"}) =>
            \A tag \in NamedTags(services[1].rules) :
               InLog(AddGroup(1, tag)) => HasTag(inst.groups, tag)
      /\ pc = "done" =>
            \A k \in 1..2 : \A tag \in NamedTags(services[k].rules) :
               HasTag(store, tag)

\* --------------------------------------------- two passes of parse() at once
\* Two runs of the plugin for one stack instance; nothing in parse() takes a
\* lock. Each run has its own stack_instance object; they share the store.
\* The API answers every call.
Runs == {1, 2}

RaceShapes ==
    {Grouped(<<"h1">>, <<Rule(<<"web">>, 1)>>, FALSE, <<>>),
     Grouped(<<"h1", "h2">>, <<Rule(<<"web">>, 1)>>, FALSE, <<>>),
     Grouped(<<"h1", "h2">>, <<Rule(<<"web">>, 2)>>, FALSE, <<>>),
     Grouped(<<"h1">>, <<Rule(<<"db">>, 1)>>, FALSE, <<>>),
     Grouped(<<"h1", "h2">>, <<Rule(<<"web", "db">>, 1)>>, FALSE, <<>>),
     Grouped(<<"h1", "h2">>, <<Rule(<<"web">>, 0)>>, FALSE, <<>>),
     Grouped(<<"h1">>, <<Rule(<<"web">>, 1)>>, TRUE, BadSecrets),
     Plain(<<"h1">>, FALSE, <<>>)}

IdleRun == [pc |-> "idle", svc |-> 0, groups |-> <<>>, hosts |-> <<>>]

RaceInit ==
    /\ CallOff
    /\ store \in StoreInits
    /\ services \in UNION {[1..n -> RaceShapes] : n \in 1..MaxRaceServices}
    /\ pc = "off"
    /\ raised = "none"
    /\ passNo = 0
    /\ svc = 0
    /\ inst = [groups |-> <<>>, hosts |-> <<>>]
    /\ log = <<>>
    /\ validAtFetch = FALSE
    /\ storeAtCheck = <<>>
    /\ prev = NoPrev
    /\ race = [start |-> store, procs |-> [p \in Runs |-> IdleRun]]

raceFrame == <<services, pc, raised, passNo, svc, inst, log, validAtFetch,
               storeAtCheck, prev, callVars>>

SetRun(p, r) == race' = [race EXCEPT !.procs[p] = r]

\* stack_instance = api_instance.get_stack_instance(stack_instance_name)
RaceGet(p) ==
    /\ race.procs[p].pc = "idle"
    /\ SetRun(p, [pc |-> "service", svc |-> 1, groups |-> store,
                  hosts |-> [k \in 1..Len(services) |-> services[k].hosts]])
    /\ UNCHANGED <<store, raceFrame>>

\* if not check_groups(stack_instance.groups, rules, hosts)
RaceCheck(p) ==
    LET r == race.procs[p]
    IN /\ r.pc = "service"
       /\ r.svc <= Len(services)
       /\ services[r.svc].grouped
       /\ SetRun(p, [r EXCEPT !.pc =
                       IF check_groups(r.groups, services[r.svc].rules,
                                       r.hosts[r.svc])
                       THEN "publish" ELSE "create"])
       /\ UNCHANGED <<store, raceFrame>>

\* stack_instance.groups = create_groups(...), or its exit(1)
RaceCreate(p) ==
    LET r == race.procs[p]
        c == create_groups(r.hosts[r.svc], services[r.svc].rules, "t1")
    IN /\ r.pc = "create"
       /\ SetRun(p, IF c.ok
                    THEN [r EXCEPT !.pc = "put", !.groups = c.groups,
                                   !.hosts[r.svc] = c.hosts]
                    ELSE [r EXCEPT !.pc = "failed"])
       /\ UNCHANGED <<store, raceFrame>>

\* api_instance.put_stack_instance(stack_update)
RacePut(p) ==
    LET r == race.procs[p]
    IN /\ r.pc = "put"
       /\ store' = r.groups
       /\ SetRun(p, [r EXCEPT !.pc = "publish"])
       /\ UNCHANGED raceFrame

\* the publication of the groups for the service
RacePublish(p) ==
    LET r == race.procs[p]
    IN /\ r.pc = "publish"
       /\ SetRun(p, IF PublishGroups(r.svc, r.groups, services[r.svc], <<>>).ok
                    THEN [r EXCEPT !.pc = "service", !.svc = r.svc + 1]
                    ELSE [r EXCEPT !.pc = "failed"])
       /\ UNCHANGED <<store, raceFrame>>

\* a service without stackl_inventory_groups
RacePlain(p) ==
    LET r == race.procs[p]
    IN /\ r.pc = "service"
       /\ r.svc <= Len(services)
       /\ ~services[r.svc].grouped
       /\ SetRun(p, IF PublishService(r.svc, ServiceNames[r.svc],
                                      services[r.svc]).ok
                    THEN [r EXCEPT !.svc = r.svc + 1]
                    ELSE [r EXCEPT !.pc = "failed"])
       /\ UNCHANGED <<store, raceFrame>>

\* parse() returns
RaceReturn(p) ==
    LET r == race.procs[p]
    IN /\ r.pc = "service"
       /\ r.svc > Len(services)
       /\ SetRun(p, [r EXCEPT !.pc = "done"])
       /\ UNCHANGED <<store, raceFrame>>

RaceNext ==
    \E p \in Runs :
       \/ RaceGet(p)
       \/ RaceCheck(p)
       \/ RaceCreate(p)
       \/ RacePut(p)
       \/ RacePublish(p)
       \/ RacePlain(p)
       \/ RaceReturn(p)

SpecRace == RaceInit /\ [][RaceNext]_vars

\* The store one pass of parse() leaves, run alone from service k on with the
\* groups and hosts it holds.
RECURSIVE PassAlone(_, _, _, _)
PassAlone(k, groups, hosts, st) ==
    IF k > Len(services) THEN st
    ELSE IF ~services[k].grouped
    THEN IF PublishService(k, ServiceNames[k], services[k]).ok
         THEN PassAlone(k + 1, groups, hosts, st)
         ELSE st
    ELSE IF check_groups(groups, services[k].rules, hosts[k])
    THEN IF PublishGroups(k, groups, services[k], <<>>).ok
         THEN PassAlone(k + 1, groups, hosts, st)
         ELSE st
    ELSE LET c == create_groups(hosts[k], services[k].rules, "t1")
         IN IF ~c.ok THEN st
            ELSE IF PublishGroups(k, c.groups, services[k], <<>>).ok
            THEN PassAlone(k + 1, c.groups, [hosts EXCEPT ![k] = c.hosts],
                           c.groups)
            ELSE c.groups

SerialPass(st) ==
    PassAlone(1, st, [k \in 1..Len(services) |-> services[k].hosts], st)

BothFinished == \A p \in Runs : race.procs[p].pc \in {"done", "failed"}

\* C19: when two concurrent passes have both finished, the store holds what
\* two passes run one after the other from the same start leave.
C19_RaceEndsAsSerial ==
    BothFinished => store = SerialPass(SerialPass(race.start))

====
